---- MODULE Spec2Model ----
(***************************************************************************)
(* Model of the oim repository: OhsakaEvaluator::select (pruned            *)
(* Monte-Carlo seed selection, src/src/OhsakaEvaluator.hpp) and the mode   *)
(* functions of src/main.cpp.                                              *)
(*                                                                         *)
(* Vectors indexed 0..R_-1 in the source are sequences indexed 1..R_ here. *)
(* std::unordered_map values are functions whose DOMAIN is the key set.    *)
(***************************************************************************)
EXTENDS Integers, Sequences, FiniteSets, TLC

\* ---- bounds of the model ------------------------------------------------
\* MaxDice bounds the dice of one call of select: (number of arcs) * R_.
\* MaxK bounds the argument k.  The main loop of select is followed for at
\* most k + 1 iterations.  MaxLines bounds the lines of the edge-list file.
\* CacheSamples (below) is R_ in the specification of the gain cache.
MaxDice == 2
MaxK == 2
MaxLines == 2

\* the node ids of the graphs given to select
NodeIds == {0, 1, 2}
Arcs == {a \in NodeIds \X NodeIds : a[1] # a[2]}

\* ---- helpers on maps and sequences -------------------------------------
EmptyMap == [x \in {} |-> 0]

\* m[key] = val, as std::unordered_map::operator[] followed by assignment
Put(m, key, val) == (key :> val) @@ m

Min(a, b) == IF a < b THEN a ELSE b

RECURSIVE SetToSeq(_)
\* some enumeration of a finite set of integers (ascending)
SetToSeq(S) ==
  IF S = {} THEN <<>>
  ELSE LET m == CHOOSE x \in S : \A y \in S : x <= y
       IN <<m>> \o SetToSeq(S \ {m})

\* ---- Graph (Graph.hpp is not part of the sources; modelled from the      *)
\* ---- specification, section 4.1)                                         *)
\* A graph is a record [nodes, adj]: adj maps a node that has outgoing arcs
\* to the sequence of their targets, in insertion order.
EmptyGraph == [nodes |-> {}, adj |-> EmptyMap]

add_node(g, u) == [g EXCEPT !.nodes = @ \cup {u}]

add_edge(g, u, v) ==
  [nodes |-> g.nodes \cup {u, v},
   adj |-> IF u \in DOMAIN g.adj
           THEN [g.adj EXCEPT ![u] = Append(@, v)]
           ELSE Put(g.adj, u, <<v>>)]

has_node(g, u) == u \in g.nodes

has_neighbours(g, u) == u \in DOMAIN g.adj

get_neighbours(g, u) == g.adj[u]

remove_node(g, u) ==
  [nodes |-> g.nodes \ {u},
   adj |-> [x \in (DOMAIN g.adj) \ {u} |-> g.adj[x]]]

RECURSIVE BuildGraph(_, _)
\* the graph made by add_edge over an edge list, in list order
BuildGraph(es, j) ==
  IF j = 0 THEN EmptyGraph
  ELSE add_edge(BuildGraph(es, j - 1), es[j][1], es[j][2])

\* ---- Tarjan (OhsakaEvaluator::scc / tarjan) -----------------------------
\* st: [index, lowlink, pred, vis_stack, cur_index, cur_cc, cur_cc_list,
\*      cur_num_cc].  The member set `visited` is written by scc but never
\* read, so it is not part of st.  lv is the set of arcs whose dice came up
\* live; each arc is diced exactly once, when scc runs on its source.
RECURSIVE scc(_, _, _, _), sccEdges(_, _, _, _, _), sccPop(_, _)

sccPop(node, st) ==
  LET cur_node == Head(st.vis_stack)
      st1 == [st EXCEPT
                !.vis_stack = Tail(@),
                !.cur_cc = Put(@, cur_node, st.cur_num_cc),
                !.cur_cc_list =
                   Put(@, st.cur_num_cc,
                       (IF st.cur_num_cc \in DOMAIN @
                        THEN @[st.cur_num_cc] ELSE {}) \cup {cur_node})]
  IN IF cur_node # node THEN sccPop(node, st1) ELSE st1

sccEdges(node, j, graph, lv, st) ==
  IF j > Len(get_neighbours(graph, node)) THEN st
  ELSE LET target == get_neighbours(graph, node)[j]
       IN IF <<node, target>> \in lv
          THEN IF target \notin DOMAIN st.index
               THEN LET st1 == scc(target, graph, lv,
                                   [st EXCEPT !.pred = Put(@, target, node)])
                        st2 == [st1 EXCEPT !.lowlink[node] =
                                   Min(@, st1.lowlink[target])]
                    IN sccEdges(node, j + 1, graph, lv, st2)
               ELSE sccEdges(node, j + 1, graph, lv,
                             [st EXCEPT !.lowlink[node] =
                                Min(@, st.index[target])])
          ELSE sccEdges(node, j + 1, graph, lv, st)

scc(node, graph, lv, st) ==
  LET st1 == [st EXCEPT
                !.index = Put(@, node, st.cur_index),
                !.lowlink = Put(@, node, st.cur_index),
                !.cur_index = @ + 1,
                !.vis_stack = <<node>> \o @]
      st2 == IF has_neighbours(graph, node)
             THEN sccEdges(node, 1, graph, lv, st1)
             ELSE st1
  IN IF st2.lowlink[node] = st2.index[node]
     THEN [sccPop(node, st2) EXCEPT !.cur_num_cc = @ + 1]
     ELSE st2

TarjanInit ==
  [index |-> EmptyMap, lowlink |-> EmptyMap, pred |-> EmptyMap,
   vis_stack |-> <<>>, cur_index |-> 0,
   cur_cc |-> EmptyMap, cur_cc_list |-> EmptyMap, cur_num_cc |-> 0]

RECURSIVE tarjanRoots(_, _, _, _, _)
\* the loop over graph.get_nodes() of tarjan, nodes taken in the order ord
tarjanRoots(ord, j, graph, lv, st) ==
  IF j > Len(ord) THEN st
  ELSE LET node == ord[j]
       IN IF node \notin DOMAIN st.index
          THEN tarjanRoots(ord, j + 1, graph, lv,
                 scc(node, graph, lv, [st EXCEPT !.pred = Put(@, node, node)]))
          ELSE tarjanRoots(ord, j + 1, graph, lv, st)

\* cur_cc[x] read through operator[]: a missing key is inserted with value 0
CcAt(m, x) == IF x \in DOMAIN m THEN m[x] ELSE 0

RECURSIVE tarjanDag(_, _, _)
\* the loop over pred that builds the DAG (keys taken in ascending order;
\* only the set of arcs and their number per source are read later)
tarjanDag(keys, j, st) ==
  IF j = 0 THEN EmptyGraph
  ELSE LET first == keys[j]
           second == st.pred[first]
           dag == add_node(tarjanDag(keys, j - 1, st), first)
       IN IF CcAt(st.cur_cc, second) # CcAt(st.cur_cc, first)
          THEN add_edge(dag, CcAt(st.cur_cc, second), CcAt(st.cur_cc, first))
          ELSE dag

\* tarjan(sampler, graph): what it pushes onto cc, cc_list and graphs
tarjan(ord, graph, lv) ==
  LET st == tarjanRoots(ord, 1, graph, lv, TarjanInit)
  IN [cc |-> st.cur_cc,
      cc_list |-> st.cur_cc_list,
      dag |-> tarjanDag(SetToSeq(DOMAIN st.pred), Cardinality(DOMAIN st.pred), st)]

\* ---- bfs (OhsakaEvaluator::bfs) ----------------------------------------
\* b: [q, visited, col, ret]; ret is set by the early return of the `to` case
RECURSIVE bfsNeigh(_, _, _, _, _, _), bfsLoop(_, _, _, _, _)

bfsNeigh(ns, j, b, node, to, to_node) ==
  IF j > Len(ns) THEN b
  ELSE LET target == ns[j]
       IN IF target \notin b.visited
          THEN LET b1 == [b EXCEPT !.q = Append(@, target),
                                   !.visited = @ \cup {target}]
               IN IF ~to
                  THEN bfsNeigh(ns, j + 1,
                                [b1 EXCEPT !.col = @ \cup {target}],
                                node, to, to_node)
                  ELSE IF target = to_node
                       THEN [b1 EXCEPT !.col = @ \cup {node}, !.ret = TRUE]
                       ELSE bfsNeigh(ns, j + 1, b1, node, to, to_node)
          ELSE bfsNeigh(ns, j + 1, b, node, to, to_node)

bfsLoop(g, b, node, to, to_node) ==
  IF b.q = <<>> THEN b.col
  ELSE LET cur_node == Head(b.q)
           b1 == [b EXCEPT !.q = Tail(@), !.visited = @ \cup {cur_node}]
           b2 == IF has_neighbours(g, cur_node)
                 THEN bfsNeigh(get_neighbours(g, cur_node), 1, b1,
                               node, to, to_node)
                 ELSE b1
       IN IF b2.ret THEN b2.col ELSE bfsLoop(g, b2, node, to, to_node)

\* bfs(node, i, col, to, to_node) on g = graphs[i]: the new value of col
bfs(g, node, col, to, to_node) ==
  bfsLoop(g, [q |-> <<node>>, visited |-> {node}, col |-> col, ret |-> FALSE],
          node, to, to_node)

\* ---- gain (OhsakaEvaluator::gain) ---------------------------------------
\* s is the state of one sample: [cc, cc_list, graph, A, D, h, latest, delta].
\* gain returns [s |-> the sample state after the call, val |-> the result].
RECURSIVE gain(_, _, _), gainBfs(_, _, _, _), gainPush(_, _, _, _, _)

\* the loop over get_neighbours(u): w is [Q, X, s]
gainPush(ns, j, Q, X, g) ==
  IF j > Len(ns) THEN [Q |-> Q, X |-> X]
  ELSE IF ns[j] \notin X /\ has_node(g, ns[j])
       THEN gainPush(ns, j + 1, Append(Q, ns[j]), X \cup {ns[j]}, g)
       ELSE gainPush(ns, j + 1, Q, X, g)

\* the while loop over Q: s.delta[v] accumulates the sizes
gainBfs(s, v, set, w) ==
  IF w.Q = <<>> THEN s
  ELSE LET u == Head(w.Q)
       IN IF v \in s.A /\ u \in s.D /\ set = {}
          THEN gainBfs(s, v, set, [w EXCEPT !.Q = Tail(@)])
          ELSE LET ccl == IF u \in DOMAIN s.cc_list THEN s.cc_list
                          ELSE Put(s.cc_list, u, {})
                   s1 == [s EXCEPT !.cc_list = ccl,
                                   !.delta[v] = @ + Cardinality(ccl[u])]
                   w1 == IF has_neighbours(s.graph, u)
                         THEN gainPush(get_neighbours(s.graph, u), 1,
                                       Tail(w.Q), w.X, s.graph)
                         ELSE [Q |-> Tail(w.Q), X |-> w.X]
               IN gainBfs(s1, v, set, w1)

gain(s, node, set) ==
  LET s0 == IF node \in DOMAIN s.cc THEN s
            ELSE [s EXCEPT !.cc = Put(@, node, 0)]
      v == s0.cc[node]
  IN IF ~has_node(s0.graph, v) THEN [s |-> s0, val |-> 0]
     ELSE IF s0.latest[v] THEN [s |-> s0, val |-> s0.delta[v]]
     ELSE LET s1 == [s0 EXCEPT !.latest[v] = TRUE]
              s2 == IF v \in s1.A /\ set = {}
                    THEN LET r == gain(s1, CHOOSE n \in s1.cc_list[s1.h] : TRUE,
                                       set)
                         IN [r.s EXCEPT !.delta[v] = r.val]
                    ELSE [s1 EXCEPT !.delta[v] = 0]
              s3 == gainBfs(s2, v, set, [Q |-> <<v>>, X |-> {v}])
          IN [s |-> s3, val |-> s3.delta[v]]

\* ---- update_dag (OhsakaEvaluator::update_dag) ---------------------------
RECURSIVE removeAll(_, _)
removeAll(g, nodes) ==
  IF nodes = {} THEN g
  ELSE LET n == CHOOSE x \in nodes : TRUE
       IN removeAll(remove_node(g, n), nodes \ {n})

update_dag(s, node) ==
  LET s0 == IF node \in DOMAIN s.cc THEN s
            ELSE [s EXCEPT !.cc = Put(@, node, 0)]
      t == s0.cc[node]
      desc == bfs(s0.graph, t, {}, FALSE, 0)
      stale(v) == \E u \in desc : bfs(s0.graph, v, {}, TRUE, u) # {}
  IN [s0 EXCEPT
        !.latest = [v \in DOMAIN @ |->
                      IF v \in s0.graph.nodes /\ @[v] /\ stale(v)
                      THEN FALSE ELSE @[v]],
        !.graph = removeAll(@, desc)]

\* ---- OhsakaEvaluator::select --------------------------------------------
VARIABLES
  graph,      \* the argument graph
  order,      \* the iteration order of graph.get_nodes() in this run
  activated,  \* the argument activated
  k,          \* the argument k
  live,       \* live[i]: the arcs whose dice came up live in sample i
  cc, cc_list, graphs, A, D, h, latest, delta,   \* the members of the evaluator
  set,        \* the local seed set of select
  t,          \* the node chosen by the last iteration of the main loop
  gval,       \* gval[v][i]: what gain(i, v, set) returned in the last iteration
  iters,      \* number of iterations of the main loop made so far
  R_,         \* the member R_, set by the constructor
  pc          \* "setup" (the loop over the samples), "loop", "done"

svars == <<graph, order, activated, k, live, cc, cc_list, graphs, A, D, h,
           latest, delta, set, t, gval, iters, R_, pc>>

RECURSIVE ArcSeq(_)
\* the arcs of S in ascending (source, target) order
ArcSeq(S) ==
  IF S = {} THEN <<>>
  ELSE LET m == CHOOSE a \in S :
                  \A b \in S : a[1] < b[1] \/ (a[1] = b[1] /\ a[2] <= b[2])
       IN <<m>> \o ArcSeq(S \ {m})

\* the edge lists of the model: up to MaxDice distinct arcs, sorted
EdgeLists ==
  {ArcSeq(S) : S \in {T \in SUBSET Arcs : Cardinality(T) <= MaxDice}}

Perms(S) ==
  {f \in [1..Cardinality(S) -> S] : \A a, b \in DOMAIN f : a # b => f[a] # f[b]}

SelectInit ==
  /\ \E es \in EdgeLists :
       /\ graph = BuildGraph(es, Len(es))
       /\ R_ \in {r \in 1..MaxDice : r * Len(es) <= MaxDice}
  /\ order \in Perms(graph.nodes)
  /\ activated \in SUBSET graph.nodes
  /\ k \in 0..MaxK
  /\ live = <<>>
  /\ cc = <<>> /\ cc_list = <<>> /\ graphs = <<>>
  /\ A = <<>> /\ D = <<>> /\ h = <<>> /\ latest = <<>> /\ delta = <<>>
  /\ set = {}
  /\ t = 0
  /\ gval = EmptyMap
  /\ iters = 0
  /\ pc = "setup"

ArcsOf(g) ==
  UNION {{<<u, g.adj[u][j]>> : j \in 1..Len(g.adj[u])} : u \in DOMAIN g.adj}

Deg(g, node) ==
  IF has_neighbours(g, node) THEN Len(get_neighbours(g, node)) ELSE 0

\* The values max_node can have after the loop `if (deg >= max_val)` over
\* graphs[i].get_nodes(): the node of largest out-degree that comes last in
\* the container's iteration order, which the program does not fix.
HubChoices(g) ==
  IF g.nodes = {} THEN {0}
  ELSE {n \in g.nodes : \A m \in g.nodes : Deg(g, m) <= Deg(g, n)}

\* The loop "Removing activated nodes": `for (auto cc : cc_list[i])` binds a
\* copy of each (id, set) pair, so the erase acts on the copy only.
RemoveActivated(ccl, act) ==
  LET copy == [c \in DOMAIN ccl |-> ccl[c] \ act]
  IN ccl

\* The ancestors of the hub: bfs(node, i, A[i], true, h[i]) over the nodes
\* that are neither the hub nor in D[i]
ComputeA(g, hub, desc) ==
  UNION {bfs(g, node, {}, TRUE, hub) :
           node \in {n \in g.nodes : n # hub /\ n \notin desc}}

\* One pass of the loop over the samples (lines 90-128): tarjan, the hub,
\* D[i] and A[i], the cache.  lv is the outcome of the dice of this sample.
Setup ==
  /\ pc = "setup"
  /\ \E lv \in SUBSET ArcsOf(graph) :
       LET tj == tarjan(order, graph, lv)
       IN \E max_node \in HubChoices(tj.dag) :
            LET cur_D == bfs(tj.dag, max_node, {}, FALSE, 0)
            IN /\ live' = Append(live, lv)
               /\ cc' = Append(cc, tj.cc)
               /\ cc_list' = Append(cc_list, RemoveActivated(tj.cc_list, activated))
               /\ graphs' = Append(graphs, tj.dag)
               /\ h' = Append(h, max_node)
               /\ D' = Append(D, cur_D)
               /\ A' = Append(A, ComputeA(tj.dag, max_node, cur_D))
               /\ latest' = Append(latest, [n \in tj.dag.nodes |-> FALSE])
               /\ delta' = Append(delta, [n \in tj.dag.nodes |-> 0])
  /\ pc' = IF Len(cc) + 1 = R_ THEN "loop" ELSE "setup"
  /\ UNCHANGED <<graph, order, activated, k, set, t, gval, iters, R_>>

Smp(i) ==
  [cc |-> cc[i], cc_list |-> cc_list[i], graph |-> graphs[i], A |-> A[i],
   D |-> D[i], h |-> h[i], latest |-> latest[i], delta |-> delta[i]]

\* the comparison as `>`: the first of the nodes that tie would be kept
BetterStrict(tot_val, val_max) == tot_val > val_max

\* `if (tot_val >= val_max)` (line 139)
Better(tot_val, val_max) == tot_val >= val_max

RECURSIVE gainAll(_, _, _, _), selLoop(_, _, _, _)

\* `for i < R_: tot_val += gain(i, v, set)`; a is [ss, vals]
gainAll(i, v, cur, a) ==
  IF i > R_ THEN a
  ELSE LET r == gain(a.ss[i], v, cur)
       IN gainAll(i + 1, v, cur,
                  [ss |-> [a.ss EXCEPT ![i] = r.s],
                   vals |-> Append(a.vals, r.val)])

RECURSIVE SumSeq(_)
SumSeq(q) == IF q = <<>> THEN 0 ELSE Head(q) + SumSeq(Tail(q))

\* The loop over graph.get_nodes() of one iteration of the main loop.
\* a is [ss, t, val_max, gval].  The source divides tot_val by R_ before it
\* compares; val_max here is R_ times the source's value, which compares
\* the same way.
selLoop(ord, j, cur, a) ==
  IF j > Len(ord) THEN a
  ELSE LET v == ord[j]
       IN IF v \notin activated
          THEN LET g == gainAll(1, v, cur, [ss |-> a.ss, vals |-> <<>>])
                   tot_val == SumSeq(g.vals)
                   hit == Better(tot_val, a.val_max)
               IN selLoop(ord, j + 1, cur,
                    [ss |-> g.ss,
                     t |-> IF hit THEN v ELSE a.t,
                     val_max |-> IF hit THEN tot_val ELSE a.val_max,
                     gval |-> Put(a.gval, v, g.vals)])
          ELSE selLoop(ord, j + 1, cur, a)

\* One iteration of `while (set.size() < k)` (lines 130-147)
Iterate ==
  /\ pc = "loop"
  /\ Cardinality(set) < k
  /\ iters <= k
  /\ LET r == selLoop(order, 1, set,
                      [ss |-> [i \in 1..R_ |-> Smp(i)], t |-> 0,
                       val_max |-> 0, gval |-> EmptyMap])
         ss == [i \in 1..R_ |-> update_dag(r.ss[i], r.t)]
     IN /\ set' = set \cup {r.t}
        /\ t' = r.t
        /\ gval' = r.gval
        /\ cc' = [i \in 1..R_ |-> ss[i].cc]
        /\ cc_list' = [i \in 1..R_ |-> ss[i].cc_list]
        /\ graphs' = [i \in 1..R_ |-> ss[i].graph]
        /\ latest' = [i \in 1..R_ |-> ss[i].latest]
        /\ delta' = [i \in 1..R_ |-> ss[i].delta]
  /\ iters' = iters + 1
  /\ UNCHANGED <<graph, order, activated, k, live, A, D, h, R_, pc>>

\* `return set` (line 148)
Return ==
  /\ pc = "loop"
  /\ ~(Cardinality(set) < k)
  /\ pc' = "done"
  /\ UNCHANGED <<graph, order, activated, k, live, cc, cc_list, graphs, A, D,
                 h, latest, delta, set, t, gval, iters, R_>>

\* ---- main.cpp: the mode functions ---------------------------------------
VARIABLES
  mode,       \* argv[1], without the dashes
  file,       \* the edge-list file: a sequence of lines of three tokens
  fpos,       \* the line the ingestion loop reads next
  arcs,       \* the arcs given to add_edge so far: <<src, tgt, prob>>
  margs,      \* the locals exploit, explore, budget, k once parsed
  evaluator,  \* the evaluators handed to the strategy
  mpc         \* "ingest", "config", "perform", "exit1", "abort"

mvars == <<mode, file, fpos, arcs, margs, evaluator, mpc>>

vars == <<svars, mvars>>

\* A token of the file: a number (probabilities in tenths) or another word
Num(n) == [num |-> TRUE, val |-> n]
Word == [num |-> FALSE, val |-> 0]

Lines ==
  {<<a, b, p>> : a \in {Num(0), Word}, b \in {Num(1), Word},
                 p \in {Num(5), Num(15), Word}}

Files == UNION {[1..n -> Lines] : n \in 0..MaxLines}

Modes == {"real", "prior", "explore", "egreedy", "eg", "zsc", "benchmark",
          "spread"}

\* the values of atoi(argv[..]) the model passes
MaxArg == 5
ArgVals == 0..MaxArg

NoArgs == [exploit |-> 0, explore |-> 0, budget |-> 0, k |-> 0]
NoEvaluator == [exploit |-> "none", explore |-> "none"]

MainInit ==
  /\ mode \in Modes
  /\ file \in Files
  /\ fpos = 1
  /\ arcs = <<>>
  /\ margs = NoArgs
  /\ evaluator = NoEvaluator
  /\ mpc = "ingest"

\* `file >> src >> tgt >> prob` succeeds: the three tokens parse
Parses(line) == line[1].num /\ line[2].num /\ line[3].num

\* One iteration of `while (file >> src >> tgt >> prob)`: add_edge, edges++
ReadArc ==
  /\ mpc = "ingest"
  /\ fpos <= Len(file)
  /\ Parses(file[fpos])
  /\ arcs' = Append(arcs, <<file[fpos][1].val, file[fpos][2].val,
                            file[fpos][3].val>>)
  /\ fpos' = fpos + 1
  /\ UNCHANGED <<mode, file, margs, evaluator, mpc, svars>>

\* The loop ends: end of file, or an extraction failed
EndIngest ==
  /\ mpc = "ingest"
  /\ IF fpos <= Len(file) THEN ~Parses(file[fpos]) ELSE TRUE
  /\ mpc' = "config"
  /\ UNCHANGED <<mode, file, fpos, arcs, margs, evaluator, svars>>

\* the vectors evals of the mode functions
EvalsReal == <<"CELF", "Random", "DiscountDegree", "TIM", "HighestDegree">>
EvalsPrior == <<"CELF", "Random", "DiscountDegree", "TIM">>
EvalsExplore == <<"Random", "DiscountDegree", "CELF", "TIM">>
EvalsEpsgreedy == <<"CELF", "Random", "DiscountDegree", "TIM">>
EvalsZscore == <<"CELF", "Random", "DiscountDegree", "TIM">>

\* evals.at(idx) throws std::out_of_range unless idx < evals.size()
InRange(evals, idx) == idx < Len(evals)
At(evals, idx) == evals[idx + 1]

\* A mode function with one evaluator index: evals.at(exploit), then
\* strategy.perform(budget, k, ...).  Nothing catches the exception of at().
OneIndex(m, evals) ==
  /\ mpc = "config"
  /\ mode = m
  /\ \E exploit \in ArgVals, budget \in ArgVals, kk \in ArgVals :
       /\ margs' = [exploit |-> exploit, explore |-> 0, budget |-> budget,
                    k |-> kk]
       /\ IF InRange(evals, exploit)
          THEN /\ evaluator' = [exploit |-> At(evals, exploit),
                                explore |-> "none"]
               /\ mpc' = "perform"
          ELSE /\ evaluator' = evaluator
               /\ mpc' = "abort"
  /\ UNCHANGED <<mode, file, fpos, arcs, svars>>

real == OneIndex("real", EvalsReal)

prior == OneIndex("prior", EvalsPrior)

zscore == OneIndex("zsc", EvalsZscore)

\* explore(): evals.at(explore) is both evaluators of the strategy
explore ==
  /\ mpc = "config"
  /\ mode = "explore"
  /\ \E idx \in ArgVals, budget \in ArgVals, kk \in ArgVals :
       /\ margs' = [exploit |-> 0, explore |-> idx, budget |-> budget,
                    k |-> kk]
       /\ IF InRange(EvalsExplore, idx)
          THEN /\ evaluator' = [exploit |-> At(EvalsExplore, idx),
                                explore |-> At(EvalsExplore, idx)]
               /\ mpc' = "perform"
          ELSE /\ evaluator' = evaluator
               /\ mpc' = "abort"
  /\ UNCHANGED <<mode, file, fpos, arcs, svars>>

\* epsgreedy(): evals.at(explore), evals.at(exploit)
epsgreedy ==
  /\ mpc = "config"
  /\ mode = "egreedy"
  /\ \E exploit \in ArgVals, idx \in ArgVals, budget \in ArgVals,
        kk \in ArgVals :
       /\ margs' = [exploit |-> exploit, explore |-> idx, budget |-> budget,
                    k |-> kk]
       /\ IF InRange(EvalsEpsgreedy, idx) /\ InRange(EvalsEpsgreedy, exploit)
          THEN /\ evaluator' = [exploit |-> At(EvalsEpsgreedy, exploit),
                                explore |-> At(EvalsEpsgreedy, idx)]
               /\ mpc' = "perform"
          ELSE /\ evaluator' = evaluator
               /\ mpc' = "abort"
  /\ UNCHANGED <<mode, file, fpos, arcs, svars>>

\* expgr(): the if-chain over exploit, exit(1) in its else branch
expgr ==
  /\ mpc = "config"
  /\ mode = "eg"
  /\ \E exploit \in ArgVals, budget \in ArgVals, kk \in ArgVals :
       /\ margs' = [exploit |-> exploit, explore |-> 0, budget |-> budget,
                    k |-> kk]
       /\ IF exploit = 0 \/ exploit = 1 \/ exploit = 2 \/ exploit = 3
          THEN /\ evaluator' =
                    [exploit |-> CASE exploit = 0 -> "CELF"
                                   [] exploit = 1 -> "Random"
                                   [] exploit = 2 -> "DiscountDegree"
                                   [] exploit = 3 -> "TIM",
                     explore |-> "none"]
               /\ mpc' = "perform"
          ELSE /\ evaluator' = evaluator
               /\ mpc' = "exit1"
  /\ UNCHANGED <<mode, file, fpos, arcs, svars>>

\* benchmark(): no evaluator; the sampler runs on every node of the graph
benchmark ==
  /\ mpc = "config"
  /\ mode = "benchmark"
  /\ mpc' = "perform"
  /\ UNCHANGED <<mode, file, fpos, arcs, margs, evaluator, svars>>

\* spread(): CELFEvaluator and RandomEvaluator select with k = atoi(argv[5])
spread ==
  /\ mpc = "config"
  /\ mode = "spread"
  /\ \E kk \in ArgVals :
       margs' = [exploit |-> 0, explore |-> 0, budget |-> 0, k |-> kk]
  /\ evaluator' = [exploit |-> "CELF", explore |-> "Random"]
  /\ mpc' = "perform"
  /\ UNCHANGED <<mode, file, fpos, arcs, svars>>

\* ---- the specifications -------------------------------------------------
MainIdle ==
  /\ mode = "none" /\ file = <<>> /\ fpos = 1 /\ arcs = <<>>
  /\ margs = NoArgs /\ evaluator = NoEvaluator /\ mpc = "none"

SelectIdle ==
  /\ graph = EmptyGraph /\ order = <<>> /\ activated = {} /\ k = 0
  /\ live = <<>> /\ cc = <<>> /\ cc_list = <<>> /\ graphs = <<>>
  /\ A = <<>> /\ D = <<>> /\ h = <<>> /\ latest = <<>> /\ delta = <<>>
  /\ set = {} /\ t = 0 /\ gval = EmptyMap /\ iters = 0 /\ R_ = 1
  /\ pc = "none"

\* one call of OhsakaEvaluator::select
Init == SelectInit /\ MainIdle

Next ==
  \/ Setup /\ UNCHANGED mvars
  \/ Iterate /\ UNCHANGED mvars
  \/ Return /\ UNCHANGED mvars

Spec == Init /\ [][Next]_vars

\* A call of select with CacheSamples samples on a graph in which two nodes,
\* 0 and 3, have an arc to the head of the arc 1 -> 2: one sample can then
\* have the chain 0 -> 1 -> 2 and another the chain 3 -> 1 -> 2.
ForkArcs == {<<0, 1>>, <<1, 2>>, <<3, 1>>}
CacheSamples == 2

CacheInit ==
  /\ \E S \in SUBSET ForkArcs :
       /\ S # {}
       /\ graph = BuildGraph(ArcSeq(S), Cardinality(S))
  /\ R_ = CacheSamples
  /\ order \in Perms(graph.nodes)
  /\ activated = {}
  /\ k \in 1..MaxK
  /\ live = <<>>
  /\ cc = <<>> /\ cc_list = <<>> /\ graphs = <<>>
  /\ A = <<>> /\ D = <<>> /\ h = <<>> /\ latest = <<>> /\ delta = <<>>
  /\ set = {}
  /\ t = 0
  /\ gval = EmptyMap
  /\ iters = 0
  /\ pc = "setup"

\* one call of select on such a graph
CacheInitAll == CacheInit /\ MainIdle

CacheSpec == CacheInitAll /\ [][Next]_vars

\* one run of main
MainInitAll == MainInit /\ SelectIdle

MainNext ==
  \/ ReadArc
  \/ EndIngest
  \/ real
  \/ prior
  \/ explore
  \/ epsgreedy
  \/ expgr
  \/ zscore
  \/ benchmark
  \/ spread

MainSpec == MainInitAll /\ [][MainNext]_vars

\* ---- properties of select -----------------------------------------------
\* the nodes of the graph that are not activated
Avail == graph.nodes \ activated

\* the total over the samples of the gains of v in the last iteration
Tot(v) == SumSeq(gval[v])

\* the position of v in the iteration order of graph.get_nodes()
Pos(v) == CHOOSE j \in 1..Len(order) : order[j] = v

RECURSIVE Closure(_, _)
\* the nodes reachable from the set S along the arcs of arcset, S included
Closure(arcset, S) ==
  LET nxt == S \cup {a[2] : a \in {b \in arcset : b[1] \in S}}
  IN IF nxt = S THEN S ELSE Closure(arcset, nxt)

Reaches(arcset, u, v) == v \in Closure(arcset, {u})

\* C1: for 1 <= k <= |V \ A|, select ends after exactly k iterations of its
\* main loop with k distinct nodes: every iteration adds a node that was not
\* in the seed set, so the set has as many nodes as iterations were made,
\* there are never more than k iterations, and the returned set has k nodes.
C1_ExactlyKDistinct ==
  (1 <= k /\ k <= Cardinality(Avail)) =>
     /\ Cardinality(set) = iters
     /\ iters <= k
     /\ pc = "done" => Cardinality(set) = k

\* C2: whenever select returns, the returned set has at most k nodes, all of
\* them nodes of the graph, none of them activated.
C2_SeedSetValid ==
  pc = "done" =>
     /\ Cardinality(set) <= k
     /\ set \subseteq graph.nodes
     /\ set \cap activated = {}

\* C3: when fewer than k non-activated nodes exist, select ends with a
\* partial seed set of available nodes: the seed set never holds a node
\* outside V \ A, and the main loop stops once the available nodes are used
\* up (at most one iteration more than there are available nodes).
C3_PartialOnExhaustion ==
  Cardinality(Avail) < k =>
     /\ set \subseteq Avail
     /\ iters <= Cardinality(Avail) + 1

\* C4 as claimed: the node chosen by an iteration has the largest average
\* gain among the non-activated nodes, and among the nodes that tie for it
\* the one with the smallest id is chosen.
C4_SmallestIdOnTies ==
  (iters > 0 /\ Avail # {}) =>
     /\ t \in Avail
     /\ \A v \in Avail : Tot(v) <= Tot(t)
     /\ \A v \in Avail : Tot(v) = Tot(t) => t <= v

\* C4 as amended: the node chosen by an iteration has the largest average
\* gain among the non-activated nodes, and among the nodes that tie for it
\* the one that comes last in the iteration order of graph.get_nodes() is
\* chosen.
C4_LastInOrderOnTies ==
  (iters > 0 /\ Avail # {}) =>
     /\ t \in Avail
     /\ \A v \in Avail : Tot(v) <= Tot(t)
     /\ \A v \in Avail : Tot(v) = Tot(t) => Pos(v) <= Pos(t)

\* an iteration chose among three candidates: two tie for the largest gain,
\* the chosen one is not the one of smallest id, the third has less
C4_Witness ==
  /\ iters > 0
  /\ t \in Avail
  /\ \E v, w \in Avail :
       /\ v < t /\ Tot(v) = Tot(t)
       /\ Tot(w) < Tot(t)

\* C8: after tarjan for sample i (and before the main loop touches cc),
\* cc[i] gives every node of the graph one component id, cc_list[i] is its
\* inverse, and two nodes have the same id exactly when each reaches the
\* other along the live arcs of the sample.
C8_TarjanIsSCC ==
  iters = 0 =>
    \A i \in 1..Len(cc) :
      /\ DOMAIN cc[i] = graph.nodes
      /\ \A v \in graph.nodes : cc[i][v] \in DOMAIN cc_list[i]
      /\ \A c \in DOMAIN cc_list[i] :
           cc_list[i][c] = {v \in graph.nodes : cc[i][v] = c}
      /\ \A u, v \in graph.nodes :
           (cc[i][u] = cc[i][v]) <=>
              (Reaches(live[i], u, v) /\ Reaches(live[i], v, u))

\* C9: graphs[i] as built by tarjan is the contraction of the live arcs of
\* sample i: its nodes are the component ids, it has no cycle, it has a path
\* from component X to another component Y exactly when a node of X reaches
\* a node of Y along live arcs, and so the sizes of the components reachable
\* from cc[i][v] add up to the number of nodes v reaches.
C9_ContractionDag ==
  iters = 0 =>
    \A i \in 1..Len(graphs) :
      LET dagArcs == ArcsOf(graphs[i])
          ids == DOMAIN cc_list[i]
          size(c) == IF c \in ids THEN Cardinality(cc_list[i][c]) ELSE 0
      IN /\ graphs[i].nodes = ids
         /\ \A a \in dagArcs : ~Reaches(dagArcs, a[2], a[1])
         /\ \A X, Y \in ids :
              X # Y =>
                (Reaches(dagArcs, X, Y) <=>
                   \E x \in cc_list[i][X], y \in cc_list[i][Y] :
                      Reaches(live[i], x, y))
         /\ \A v \in graph.nodes :
              SumSeq([j \in 1..Len(SetToSeq(Closure(dagArcs, {CcAt(cc[i], v)}))) |->
                        size(SetToSeq(Closure(dagArcs, {CcAt(cc[i], v)}))[j])])
                = Cardinality(Closure(live[i], {v}))

\* the sum of the component sizes over the DAG nodes reachable from v in
\* graphs[i], v included: what the unpruned BFS of gain adds up
UnprunedSum(i, v) ==
  LET reach == SetToSeq({v} \cup bfs(graphs[i], v, {}, FALSE, 0))
  IN SumSeq([j \in 1..Len(reach) |->
               IF reach[j] \in DOMAIN cc_list[i]
               THEN Cardinality(cc_list[i][reach[j]]) ELSE 0])

\* C10: while the seed set is empty, for every sample i and every node whose
\* DAG node is an ancestor of the hub (in A[i]), gain returns the sum of the
\* component sizes over everything reachable from it, each counted once.
C10_PruningPreservesGain ==
  (pc = "loop" /\ iters = 0) =>
    \A i \in 1..R_ : \A node \in graph.nodes :
      CcAt(cc[i], node) \in A[i] =>
        gain(Smp(i), node, {}).val = UnprunedSum(i, CcAt(cc[i], node))

\* C11: once a seed has been selected and update_dag has run, gain is a
\* marginal gain: for every sample i, every selected node has gain 0, and the
\* gain of every node v is the number of nodes v reaches along the live arcs
\* of the sample that the seed set does not already reach.
C11_MarginalGain ==
  iters >= 1 =>
    \A i \in 1..R_ :
      /\ \A s \in set \cap graph.nodes : gain(Smp(i), s, set).val = 0
      /\ \A v \in graph.nodes :
           gain(Smp(i), v, set).val =
             Cardinality(Closure(live[i], {v}) \ Closure(live[i], set))

\* C13: once the setup of sample i is done, no member set of cc_list[i]
\* holds an activated node.
C13_ActivatedRemoved ==
  \A i \in 1..Len(cc_list) :
    \A c \in DOMAIN cc_list[i] : cc_list[i][c] \cap activated = {}

\* the sample i with every cache entry invalid: what gain computes afresh
Fresh(i) == [Smp(i) EXCEPT !.latest = [x \in DOMAIN @ |-> FALSE]]

\* the cache entry of the DAG node of `node` in sample i is in use
Cached(i, node) ==
  LET v == CcAt(cc[i], node)
  IN has_node(graphs[i], v) /\ v \in DOMAIN latest[i] /\ latest[i][v]

\* when the main loop goes on after an update_dag, every entry of the cache
\* that gain would return equals what gain computes afresh on the current DAG
\* with the current seed set
CacheCoherent ==
  (iters >= 1 /\ pc = "loop" /\ Cardinality(set) < k) =>
    \A i \in 1..R_ : \A node \in graph.nodes :
      Cached(i, node) =>
        delta[i][CcAt(cc[i], node)] = gain(Fresh(i), node, set).val

\* a step of the main loop leaves no valid cache entry on a DAG node that
\* stays in graphs[i] and reached a node the step removed
Invalidates ==
  iters' = iters + 1 =>
    \A i \in 1..R_ : \A v \in graphs'[i].nodes :
      (\E u \in graphs[i].nodes \ graphs'[i].nodes :
          Reaches(ArcsOf(graphs[i]), v, u))
        => ~latest'[i][v]

\* C12: the gain cache stays coherent across selections: every step of the
\* main loop invalidates the entries of the remaining DAG nodes that reached
\* a removed node, and every entry a later call of gain returns equals what
\* a fresh computation on the current DAG with the current seed set returns.
C12_CacheCoherence == [][Invalidates]_vars /\ []CacheCoherent

\* ---- properties of main -------------------------------------------------
\* the modes that take an evaluator index
IndexModes == {"real", "prior", "explore", "egreedy", "eg", "zsc"}
UsesExploit == mode \in {"real", "prior", "egreedy", "eg", "zsc"}
UsesExplore == mode \in {"explore", "egreedy"}

\* the number of evaluators the mode offers
ListSize == IF mode = "real" THEN Len(EvalsReal) ELSE Len(EvalsPrior)

\* the mode function has parsed its arguments and acted on them
ConfigDone == mpc \in {"perform", "exit1", "abort"}

InvalidConfig ==
  \/ UsesExploit /\ margs.exploit >= ListSize
  \/ UsesExplore /\ margs.explore >= ListSize
  \/ margs.k <= 0
  \/ margs.budget <= 0

\* C5: in every mode that takes an evaluator index, an index outside the
\* mode's list, k <= 0 or budget <= 0 ends the program with exit code 1, and
\* strategy.perform is not invoked.
C5_InvalidConfigIsFatal ==
  (ConfigDone /\ mode \in IndexModes /\ InvalidConfig) => mpc = "exit1"

\* the mapping of the specification, section 6
StandardEvals == <<"CELF", "Random", "DiscountDegree", "TIM", "HighestDegree">>

\* C6: in every mode, an exploit or explore index selects the same
\* evaluator: 0 CELF, 1 Random, 2 DiscountDegree, 3 TIM (4 HighestDegree
\* where the mode has it).
C6_SameIndexMapping ==
  (mpc = "perform" /\ mode \in IndexModes) =>
     /\ UsesExploit => evaluator.exploit = StandardEvals[margs.exploit + 1]
     /\ UsesExplore => evaluator.explore = StandardEvals[margs.explore + 1]

\* the file has a word that is no number, a probability outside [0,1]
\* (tenths: outside 0..10), or no arc at all
Malformed(f) ==
  \/ Len(f) = 0
  \/ \E j \in 1..Len(f) :
       \/ ~Parses(f[j])
       \/ f[j][3].val < 0
       \/ f[j][3].val > 10

\* C7: with a malformed edge list no strategy or sampler runs, and no arc
\* with a probability outside [0,1] is ever added to the graph.
C7_MalformedInputIsFatal ==
  Malformed(file) =>
     /\ mpc # "perform"
     /\ \A j \in 1..Len(arcs) : arcs[j][3] >= 0 /\ arcs[j][3] <= 10
====
